---- MODULE Spec2Model ----
(***************************************************************************)
(* Model of utils/ftp.py (class ftpSecurityTest): the recursive content    *)
(* scan (__getContent / getContent), the write/delete probe                *)
(* (checkWriteAndDeleteAccess) and the maximum-rights parser               *)
(* (getMaxRights), each driven against an FTP server whose commands may    *)
(* succeed or raise one of ftplib's four error classes.                    *)
(*                                                                         *)
(* Strings that the code inspects character by character (entry names,     *)
(* listing lines) are sequences of one-character strings.                  *)
(***************************************************************************)
EXTENDS Integers, Sequences, FiniteSets, TLC

VARIABLES
    srvTree,    \* scan: the server's directory tree (path -> raw NLST answer)
    srvCwd,     \* scan: the server's current working directory (a path)
    stack,      \* scan: the activation records of __getContent, outermost first
    scanpc,     \* scan: "idle" | "running" | "done"
    scanArgs,   \* scan: the arguments getContent was called with
    content,    \* scan: the value getContent returned
    probe,      \* probe: the activation of checkWriteAndDeleteAccess
    report,     \* probe: the list checkWriteAndDeleteAccess returned
    srvFs,      \* probe: the names that exist in the server's root directory
    runs,       \* probe: how many calls of checkWriteAndDeleteAccess were made
    data,       \* rights: the lines dir() handed to data.append
    rightspc,   \* rights: "idle" | "dir" | "done"
    rights,     \* rights: the pair getMaxRights returned
    main,       \* main: the position of main() and its operation_ok flag
    mainLog,    \* main: what main() did, in order: calls, outcomes, sleeps, prints
    clock,      \* main: the seconds main() spent in time.sleep
    faults,     \* how many more commands the server may fail out of the blue
    raised,     \* the exception the last call propagated to its caller
    ftpLog      \* every command sent to self.ftp_instance, in order

scanVars == <<srvTree, srvCwd, stack, scanpc, scanArgs, content>>
probeVars == <<probe, report, srvFs, runs>>
rightsVars == <<data, rightspc, rights>>
mainVars == <<main, mainLog, clock>>
vars == <<srvTree, srvCwd, stack, scanpc, scanArgs, content, probe, report, srvFs,
          runs, data, rightspc, rights, main, mainLog, clock, faults, raised, ftpLog>>

----------------------------------------------------------------------------
(* Bounds of the model *)

MaxFaults == 2      \* commands that fail although the server could serve them
MaxMaxDepth == 1    \* max_depth is drawn from -1..MaxMaxDepth
MaxMaxFiles == 3    \* max_files is drawn from -1..MaxMaxFiles
MaxRuns == 2        \* calls of checkWriteAndDeleteAccess on one session
MaxLines == 2       \* lines of one detailed listing
MaxMainLines == 1   \* lines of the listing under main()

----------------------------------------------------------------------------
(* ftplib's error classes *)

ErrKinds == {"error_perm", "error_temp", "error_reply", "error_proto"}
NoError == "none"

Max(S) == CHOOSE x \in S : \A y \in S : y <= x
Min(S) == CHOOSE x \in S : \A y \in S : x <= y

----------------------------------------------------------------------------
(* Python string helpers *)

\* str.find(ch): lowest 0-based index of ch in s, -1 when absent
Find(s, ch) ==
    LET hits == {i \in 1..Len(s) : s[i] = ch}
    IN  IF hits = {} THEN -1 ELSE Min(hits) - 1

\* str.split(sep): the segments between the separators
RECURSIVE Split(_, _)
Split(s, sep) ==
    LET i == Find(s, sep)
    IN  IF i = -1 THEN <<s>>
        ELSE <<SubSeq(s, 1, i)>> \o Split(SubSeq(s, i + 2, Len(s)), sep)

\* entry_split[len(entry_split) - 1]
LastSegment(entry) ==
    LET entry_split == Split(entry, "/")
    IN  entry_split[(Len(entry_split) - 1) + 1]

\* Python truth value of an int/bool (True is the int 1; 0 is false)
PyTrue == 1
Truthy(v) == v # 0

----------------------------------------------------------------------------
(* The server's trees.  A tree maps each directory path to the raw answer  *)
(* of NLST there; an entry that is no key of the tree is a plain file.     *)

nDot    == <<".">>
nDotDot == <<".", ".">>
nD      == <<"d">>
nS      == <<"s">>
nF      == <<"f">>
nH      == <<".", "h">>
nAT     == <<"a", ".", "t">>
nBT     == <<"b", ".", "t">>
nAbsD   == <<"/", "d">>
nAbsDBT == <<"/", "d", "/", "b", ".", "t">>

\* five entries: d, a.t, f under the root, b.t and s under d
TreeFive ==
    ( <<>>       :> <<nDot, nDotDot, nD, nAT, nF>> ) @@
    ( <<nD>>     :> <<nBT, nS>> ) @@
    ( <<nD, nS>> :> <<>> )

\* a hidden directory and a directory d that also exists inside it
TreeTwin ==
    ( <<>>       :> <<nH, nD>> ) @@
    ( <<nH>>     :> <<nD>> ) @@
    ( <<nH, nD>> :> <<nAT>> ) @@
    ( <<nD>>     :> <<>> )

\* a server that answers NLST with absolute paths
TreeAbs ==
    ( <<>>   :> <<nAbsD>> ) @@
    ( <<nD>> :> <<nAbsDBT>> )

Trees == {TreeFive, TreeTwin, TreeAbs}

\* the directory a CWD argument names, seen from directory `cwd`
Resolve(cwd, arg) ==
    LET segs == SelectSeq(Split(arg, "/"), LAMBDA x : x # <<>>)
    IN  IF arg # <<>> /\ arg[1] = "/" THEN segs ELSE cwd \o segs

Parent(cwd) == IF cwd = <<>> THEN <<>> ELSE SubSeq(cwd, 1, Len(cwd) - 1)

----------------------------------------------------------------------------
(* Values of the result of __getContent *)

Leaf      == [t |-> "Leaf"]                     \* ''
Truncated == [t |-> "Truncated"]                \* '+'
Subtree(level) == [t |-> "Subtree", c |-> level]  \* a dict
NoValue   == [t |-> "None"]
NoReport  == <<>>                               \* nothing was returned
EmptyDict == [n \in {} |-> Leaf]

\* level[name] = v
SetItem(level, name, v) ==
    [n \in (DOMAIN level) \cup {name} |-> IF n = name THEN v ELSE level[n]]

----------------------------------------------------------------------------
(* __getContent: the activation records and the call protocol *)

DefaultMaxDepth == -1
DefaultMaxFiles == -1
DefaultOptimized == PyTrue
DefaultCount == -1
DefaultDepth == 0

\* One activation of __getContent.  pc is where the activation stands:
\* "nlst" (before line 67), "loop" (the head of the for loop, lines 67-69),
\* "call" (inside the recursive call of line 81) or "cdup" (before line 82).  before/entered remember, for the entry
\* being processed, the server directory before cwd(entry) and whether
\* that cwd succeeded.
Frame(max_depth, max_files, optimized, count, depth) ==
    [ max_depth |-> max_depth, max_files |-> max_files,
      optimized |-> optimized, count |-> count, depth |-> depth,
      level |-> EmptyDict, todo |-> <<>>, name |-> <<>>, pc |-> "nlst",
      before |-> <<>>, entered |-> FALSE ]

Top(stk) == stk[Len(stk)]
Callers(stk) == SubSeq(stk, 1, Len(stk) - 1)
ReplaceTop(stk, f) == [stk EXCEPT ![Len(stk)] = f]

Running(stk, val) == [stack |-> stk, content |-> val, raised |-> NoError, fin |-> FALSE]
Finished(val, exc) == [stack |-> <<>>, content |-> val, raised |-> exc, fin |-> TRUE]

\* `return v`: the value lands in level[name] of the caller (line 81),
\* which goes on to cwd('..'); the outermost return ends getContent.
Deliver(callers, v) ==
    IF callers = <<>> THEN Finished(v, NoError)
    ELSE LET c == Top(callers)
         IN  Running(ReplaceTop(callers,
                 [c EXCEPT !.level = SetItem(c.level, c.name, v), !.pc = "cdup"]),
                 NoValue)

\* the exception classes the per-entry handler catches (line 85)
CaughtByEntryHandler == {"error_perm", "error_temp", "error_reply", "error_proto"}

\* the except clause of the entry being processed (lines 85-86)
EntryHandler(f) ==
    [f EXCEPT !.level = SetItem(f.level, f.name, Leaf), !.pc = "loop"]

\* An exception raised by an activation outside its own try block (the
\* nlst() of line 67): the activation dies, and the caller, whose call of
\* line 81 stands inside the try of line 70, handles it.
RECURSIVE Unwind(_, _)
Unwind(callers, exc) ==
    IF callers = <<>> THEN Finished(NoValue, exc)
    ELSE IF exc \in CaughtByEntryHandler
         THEN Running(ReplaceTop(callers, EntryHandler(Top(callers))), NoValue)
         ELSE Unwind(Callers(callers), exc)

\* lines 58-63 with the parameters bound as the def of line 44 names them
Call(callers, max_depth, max_files, optimized, count, depth) ==
    LET count1 == IF max_files >= 0 THEN count + 1 ELSE count
    IN  IF max_files >= 0 /\ count1 >= max_files
        THEN Deliver(callers, Truncated)
        ELSE IF max_depth >= 0 /\ depth > max_depth
        THEN Deliver(callers, Truncated)
        ELSE Running(Append(callers,
                 Frame(max_depth, max_files, optimized, count1, depth)), NoValue)

\* line 81: self.__getContent(max_depth, max_files, count, depth + 1),
\* four positional arguments against (max_depth, max_files, optimized,
\* count, depth): the fifth parameter takes its default.
RecursiveCall(callers, f) ==
    Call(callers, f.max_depth, f.max_files, f.count, f.depth + 1, DefaultDepth)

\* line 174: self.__getContent(max_depth, max_files)
PublicCall(max_depth, max_files) ==
    Call(<<>>, max_depth, max_files, DefaultOptimized, DefaultCount, DefaultDepth)

\* a scanner that takes a name with a leading dot for a file
TriesCwd_LeadingDotIsFile(name, optimized) ==
    Find(name, ".") < 0 \/ ~Truthy(optimized)

\* line 79: does the entry get a cwd?
TriesCwd(name, optimized) == Find(name, ".") <= 0 \/ ~Truthy(optimized)

\* line 67: the entries of the listing that are neither '.' nor '..'
Listed(raw) == SelectSeq(raw, LAMBDA path : path \notin {nDot, nDotDot})

Logged(cmd, arg, res) ==
    Append(ftpLog, [cmd |-> cmd, arg |-> arg, res |-> res, at |-> Len(stack) - 1])

Apply(o) ==
    /\ stack' = o.stack
    /\ content' = o.content
    /\ raised' = o.raised
    /\ scanpc' = IF o.fin THEN "done" ELSE "running"

----------------------------------------------------------------------------
(* The components at rest *)

NoProbe ==
    [ pc |-> "idle", dir_name |-> "", filename |-> "",
      can_create_dir |-> FALSE, can_delete_dir |-> FALSE,
      can_upload_file |-> FALSE, can_delete_file |-> FALSE ]

ProbeIdle ==
    /\ probe = NoProbe
    /\ report = NoReport
    /\ srvFs = {}
    /\ runs = 0

RightsIdle ==
    /\ data = <<>>
    /\ rightspc = "idle"
    /\ rights = NoReport

\* main() is not running: the operations are called directly
MainOff ==
    /\ main = [pc |-> "off", op |-> "none", attempt |-> 0, operation_ok |-> TRUE]
    /\ mainLog = <<>>
    /\ clock = 0

ScanIdle ==
    /\ srvTree = TreeFive
    /\ srvCwd = <<>>
    /\ stack = <<>>
    /\ scanpc = "idle"
    /\ scanArgs = [max_depth |-> DefaultMaxDepth, max_files |-> DefaultMaxFiles]
    /\ content = NoValue

----------------------------------------------------------------------------
(* The scan, one action per server command and outcome *)

InitScan ==
    /\ srvTree \in Trees
    /\ srvCwd = <<>>
    /\ stack = <<>>
    /\ scanpc = "idle"
    /\ scanArgs = [max_depth |-> DefaultMaxDepth, max_files |-> DefaultMaxFiles]
    /\ content = NoValue
    /\ faults \in 0..MaxFaults
    /\ raised = NoError
    /\ ftpLog = <<>>
    /\ ProbeIdle
    /\ RightsIdle
    /\ MainOff

\* getContent(max_depth, max_files), lines 163-174 and 58-63
GetContent ==
    /\ scanpc = "idle"
    /\ \E max_depth \in -1..MaxMaxDepth, max_files \in -1..MaxMaxFiles :
           /\ Apply(PublicCall(max_depth, max_files))
           /\ scanArgs' = [max_depth |-> max_depth, max_files |-> max_files]
    /\ UNCHANGED <<srvTree, srvCwd, faults, ftpLog>>
    /\ UNCHANGED <<probeVars, rightsVars, mainVars>>

\* line 67, nlst() answers
NlstOk ==
    /\ scanpc = "running" /\ Top(stack).pc = "nlst"
    /\ LET f == Top(stack)
       IN  Apply(Running(ReplaceTop(stack,
               [f EXCEPT !.todo = Listed(srvTree[srvCwd]), !.pc = "loop"]), NoValue))
    /\ ftpLog' = Logged("nlst", <<>>, "ok")
    /\ UNCHANGED <<scanArgs, srvTree, srvCwd, faults>>
    /\ UNCHANGED <<probeVars, rightsVars, mainVars>>

\* line 67, nlst() raises
NlstFail ==
    /\ scanpc = "running" /\ Top(stack).pc = "nlst"
    /\ faults > 0
    /\ \E exc \in ErrKinds :
          /\ Apply(Unwind(Callers(stack), exc))
          /\ ftpLog' = Logged("nlst", <<>>, exc)
    /\ faults' = faults - 1
    /\ UNCHANGED <<scanArgs, srvTree, srvCwd>>
    /\ UNCHANGED <<probeVars, rightsVars, mainVars>>

\* lines 68-81, cwd(entry) succeeds and the recursive call starts
CwdOk ==
    /\ scanpc = "running" /\ Top(stack).pc = "loop" /\ Top(stack).todo # <<>>
    /\ LET f == Top(stack)
           entry == Head(f.todo)
           name == LastSegment(entry)
           g == [f EXCEPT !.todo = Tail(f.todo), !.name = name, !.pc = "call",
                          !.before = srvCwd, !.entered = TRUE]
       IN  /\ TriesCwd(name, f.optimized)
           /\ Resolve(srvCwd, entry) \in DOMAIN srvTree
           /\ srvCwd' = Resolve(srvCwd, entry)
           /\ Apply(RecursiveCall(ReplaceTop(stack, g), g))
           /\ ftpLog' = Logged("cwd", entry, "ok")
    /\ UNCHANGED <<scanArgs, srvTree, faults>>
    /\ UNCHANGED <<probeVars, rightsVars, mainVars>>

\* lines 68-80 and 85-86, cwd(entry) raises: the entry is no directory
\* (error_perm), or the server fails the command
CwdFail ==
    /\ scanpc = "running" /\ Top(stack).pc = "loop" /\ Top(stack).todo # <<>>
    /\ LET f == Top(stack)
           entry == Head(f.todo)
           name == LastSegment(entry)
           g == [f EXCEPT !.todo = Tail(f.todo), !.name = name,
                          !.before = srvCwd, !.entered = FALSE]
       IN  /\ TriesCwd(name, f.optimized)
           /\ \E exc \in ErrKinds :
                 /\ \/ /\ Resolve(srvCwd, entry) \notin DOMAIN srvTree
                       /\ exc = "error_perm"
                       /\ faults' = faults
                    \/ /\ Resolve(srvCwd, entry) \in DOMAIN srvTree
                       /\ faults > 0
                       /\ faults' = faults - 1
                 /\ Apply(Unwind(ReplaceTop(stack, g), exc))
                 /\ ftpLog' = Logged("cwd", entry, exc)
    /\ UNCHANGED <<scanArgs, srvTree, srvCwd>>
    /\ UNCHANGED <<probeVars, rightsVars, mainVars>>

\* lines 68-79 and 83-84, the name looks like a file
SkipAsFile ==
    /\ scanpc = "running" /\ Top(stack).pc = "loop" /\ Top(stack).todo # <<>>
    /\ LET f == Top(stack)
           entry == Head(f.todo)
           name == LastSegment(entry)
       IN  /\ ~TriesCwd(name, f.optimized)
           /\ Apply(Running(ReplaceTop(stack,
                  [f EXCEPT !.todo = Tail(f.todo), !.name = name,
                            !.level = SetItem(f.level, name, Leaf),
                            !.before = srvCwd, !.entered = FALSE]), NoValue))
    /\ UNCHANGED <<scanArgs, srvTree, srvCwd, faults, ftpLog>>
    /\ UNCHANGED <<probeVars, rightsVars, mainVars>>

\* line 90, the loop is over: return level
ReturnLevel ==
    /\ scanpc = "running" /\ Top(stack).pc = "loop" /\ Top(stack).todo = <<>>
    /\ Apply(Deliver(Callers(stack), Subtree(Top(stack).level)))
    /\ UNCHANGED <<scanArgs, srvTree, srvCwd, faults, ftpLog>>
    /\ UNCHANGED <<probeVars, rightsVars, mainVars>>

\* line 82, cwd('..') succeeds
CdupOk ==
    /\ scanpc = "running" /\ Top(stack).pc = "cdup"
    /\ srvCwd' = Parent(srvCwd)
    /\ Apply(Running(ReplaceTop(stack, [Top(stack) EXCEPT !.pc = "loop"]), NoValue))
    /\ ftpLog' = Logged("cwd", nDotDot, "ok")
    /\ UNCHANGED <<scanArgs, srvTree, faults>>
    /\ UNCHANGED <<probeVars, rightsVars, mainVars>>

\* lines 82 and 85-86, cwd('..') raises
CdupFail ==
    /\ scanpc = "running" /\ Top(stack).pc = "cdup"
    /\ faults > 0
    /\ \E exc \in ErrKinds :
          /\ Apply(Unwind(stack, exc))
          /\ ftpLog' = Logged("cwd", nDotDot, exc)
    /\ faults' = faults - 1
    /\ UNCHANGED <<scanArgs, srvTree, srvCwd>>
    /\ UNCHANGED <<probeVars, rightsVars, mainVars>>

NextScan ==
    \/ GetContent
    \/ NlstOk
    \/ NlstFail
    \/ CwdOk
    \/ CwdFail
    \/ SkipAsFile
    \/ ReturnLevel
    \/ CdupOk
    \/ CdupFail

SpecScan == InitScan /\ [][NextScan]_vars

----------------------------------------------------------------------------
(* checkWriteAndDeleteAccess, one action per server command *)

\* the names a caller may pass for the directory and the file of the probe
ProbeDirNames == {"folder_to_delete_1", "folder_to_delete_2"}
ProbeFileNames == {"file_to_delete_1", "file_to_delete_2"}

Outcomes == {"ok"} \cup ErrKinds

\* a probe whose except clauses name every ftplib error
ProbeCatches_AllErrors == ErrKinds

\* the exception class the four except clauses name (lines 197, 203, 211, 217)
ProbeCatches == {"error_perm"}

\* lines 189-192
ProbeStart(dir_name, filename) ==
    [ pc |-> "mkd", dir_name |-> dir_name, filename |-> filename,
      can_create_dir |-> FALSE, can_delete_dir |-> FALSE,
      can_upload_file |-> FALSE, can_delete_file |-> FALSE ]

\* Each step maps the activation and the outcome of its command to the
\* activation after it: pc is the next command, "return" (line 222) or
\* "raise" (no clause caught the exception).

\* a probe that tries to remove the directory it could not create
AfterMkd_RemovesAnyway(p, res) ==
    IF res = "ok" THEN [p EXCEPT !.can_create_dir = TRUE, !.pc = "rmd"]
    ELSE IF res \in ProbeCatches THEN [p EXCEPT !.pc = "rmd"]
    ELSE [p EXCEPT !.pc = "raise"]

\* lines 195-200
AfterMkd(p, res) ==
    IF res = "ok" THEN [p EXCEPT !.can_create_dir = TRUE, !.pc = "rmd"]
    ELSE IF res \in ProbeCatches THEN [p EXCEPT !.pc = "stor"]
    ELSE [p EXCEPT !.pc = "raise"]

\* a probe that takes a denied removal for a removal
AfterRmd_DenialCounts(p, res) ==
    IF res = "ok" \/ res \in ProbeCatches
    THEN [p EXCEPT !.can_delete_dir = TRUE, !.pc = "stor"]
    ELSE [p EXCEPT !.pc = "raise"]

\* lines 201-206
AfterRmd(p, res) ==
    IF res = "ok" THEN [p EXCEPT !.can_delete_dir = TRUE, !.pc = "stor"]
    ELSE IF res \in ProbeCatches THEN [p EXCEPT !.pc = "stor"]
    ELSE [p EXCEPT !.pc = "raise"]

\* lines 209-214
AfterStor(p, res) ==
    IF res = "ok" THEN [p EXCEPT !.can_upload_file = TRUE, !.pc = "dele"]
    ELSE IF res \in ProbeCatches THEN [p EXCEPT !.pc = "return"]
    ELSE [p EXCEPT !.pc = "raise"]

\* lines 215-220
AfterDele(p, res) ==
    IF res = "ok" THEN [p EXCEPT !.can_delete_file = TRUE, !.pc = "return"]
    ELSE IF res \in ProbeCatches THEN [p EXCEPT !.pc = "return"]
    ELSE [p EXCEPT !.pc = "raise"]

\* lines 222-223
ProbeResult(p) ==
    <<p.can_create_dir, p.can_delete_dir, p.can_upload_file, p.can_delete_file>>

\* the activation goes on, returns its result or dies with the exception
ProbeSettle(q, res) ==
    /\ probe' = IF q.pc \in {"return", "raise"} THEN [q EXCEPT !.pc = "done"] ELSE q
    /\ report' = IF q.pc = "return" THEN ProbeResult(q) ELSE NoReport
    /\ raised' = IF q.pc = "raise" THEN res ELSE NoError

ProbeLogged(cmd, arg, res) ==
    Append(ftpLog, [cmd |-> cmd, arg |-> arg, res |-> res, at |-> runs])

InitProbe ==
    /\ ScanIdle
    /\ ProbeIdle
    /\ RightsIdle
    /\ MainOff
    /\ faults = 0
    /\ raised = NoError
    /\ ftpLog = <<>>

\* a call of checkWriteAndDeleteAccess(dir_name, filename), lines 177-192
CheckWriteAndDeleteAccess ==
    /\ probe.pc \in {"idle", "done"}
    /\ runs < MaxRuns
    /\ runs' = runs + 1
    /\ \E dir_name \in ProbeDirNames, filename \in ProbeFileNames :
           probe' = ProbeStart(dir_name, filename)
    /\ report' = NoReport
    /\ raised' = NoError
    /\ UNCHANGED <<srvFs, faults, ftpLog, scanVars, rightsVars, mainVars>>

\* line 196: mkd(dir_name); the server cannot create a name that exists
Mkd ==
    /\ probe.pc = "mkd"
    /\ \E res \in Outcomes :
          /\ res = "ok" => probe.dir_name \notin srvFs
          /\ srvFs' = IF res = "ok" THEN srvFs \cup {probe.dir_name} ELSE srvFs
          /\ ProbeSettle(AfterMkd(probe, res), res)
          /\ ftpLog' = ProbeLogged("mkd", probe.dir_name, res)
    /\ UNCHANGED <<runs, faults, scanVars, rightsVars, mainVars>>

\* line 202: rmd(dir_name)
Rmd ==
    /\ probe.pc = "rmd"
    /\ \E res \in Outcomes :
          /\ res = "ok" => probe.dir_name \in srvFs
          /\ srvFs' = IF res = "ok" THEN srvFs \ {probe.dir_name} ELSE srvFs
          /\ ProbeSettle(AfterRmd(probe, res), res)
          /\ ftpLog' = ProbeLogged("rmd", probe.dir_name, res)
    /\ UNCHANGED <<runs, faults, scanVars, rightsVars, mainVars>>

\* line 210: storbinary("STOR " + filename, StringIO(''))
Storbinary ==
    /\ probe.pc = "stor"
    /\ \E res \in Outcomes :
          /\ srvFs' = IF res = "ok" THEN srvFs \cup {probe.filename} ELSE srvFs
          /\ ProbeSettle(AfterStor(probe, res), res)
          /\ ftpLog' = ProbeLogged("stor", probe.filename, res)
    /\ UNCHANGED <<runs, faults, scanVars, rightsVars, mainVars>>

\* line 216: delete(filename)
Delete ==
    /\ probe.pc = "dele"
    /\ \E res \in Outcomes :
          /\ res = "ok" => probe.filename \in srvFs
          /\ srvFs' = IF res = "ok" THEN srvFs \ {probe.filename} ELSE srvFs
          /\ ProbeSettle(AfterDele(probe, res), res)
          /\ ftpLog' = ProbeLogged("dele", probe.filename, res)
    /\ UNCHANGED <<runs, faults, scanVars, rightsVars, mainVars>>

NextProbe ==
    \/ CheckWriteAndDeleteAccess
    \/ Mkd
    \/ Rmd
    \/ Storbinary
    \/ Delete

SpecProbe == InitProbe /\ [][NextProbe]_vars

----------------------------------------------------------------------------
(* getMaxRights *)

\* a parser that does not look at the position of the character
SetsRight_AnyPosition(element, right_type) ==
    element \in {"r", "w", "x", "X", "s"}

\* lines 262-264: does this character, at a position of this type, set a bit?
SetsRight(element, right_type) ==
    \/ element = "r" /\ right_type = 1
    \/ element = "w" /\ right_type = 2
    \/ (element = "x" \/ element = "X" \/ element = "s") /\ right_type = 0

\* a parser that reads the rights of links too
IsCounted_LinksToo(line) == Len(line) > 10

\* lines 251-254: the lines whose rights are read
IsCounted(line) ==
    IF Len(line) > 10 THEN line[0 + 1] = "-" \/ line[0 + 1] = "d" ELSE FALSE

\* lines 248-249, 235-236
NoRights ==
    [ is_valid_dir |-> FALSE, is_valid_file |-> FALSE,
      result_dir |-> [j \in 0..8 |-> FALSE], result_file |-> [j \in 0..8 |-> FALSE] ]

\* lines 251-268: one turn of the loop over data
ReadLine(acc, line) ==
    IF ~IsCounted(line) THEN acc
    ELSE LET is_dir == line[0 + 1] = "d"
             hit(i) == SetsRight(line[i + 1], i % 3)
         IN  [ is_valid_dir |-> acc.is_valid_dir \/ is_dir,
               is_valid_file |-> acc.is_valid_file \/ ~is_dir,
               result_dir |-> [j \in 0..8 |->
                   acc.result_dir[j] \/ (is_dir /\ hit(j + 1))],
               result_file |-> [j \in 0..8 |->
                   acc.result_file[j] \/ (~is_dir /\ hit(j + 1))] ]

\* lines 250-268
RECURSIVE ReadLines(_, _)
ReadLines(acc, lines) ==
    IF lines = <<>> THEN acc ELSE ReadLines(ReadLine(acc, Head(lines)), Tail(lines))

\* lines 274-297 and 299-322: a table of rights as an integer, -1 when the
\* listing held no entry of the kind
ToRights(is_valid, result) ==
    IF is_valid
    THEN (IF result[0] THEN 400 ELSE 0) + (IF result[1] THEN 200 ELSE 0)
         + (IF result[2] THEN 100 ELSE 0)
         + (IF result[3] THEN 40 ELSE 0) + (IF result[4] THEN 20 ELSE 0)
         + (IF result[5] THEN 10 ELSE 0)
         + (IF result[6] THEN 4 ELSE 0) + (IF result[7] THEN 2 ELSE 0)
         + (IF result[8] THEN 1 ELSE 0)
    ELSE -1

\* lines 244-324: what getMaxRights returns once dir() has filled data
ParseMaxRights(lines) ==
    IF Len(lines) <= 0 THEN <<-1, -1>>
    ELSE LET acc == ReadLines(NoRights, lines)
         IN  IF acc.is_valid_dir = FALSE /\ acc.is_valid_file = FALSE
             THEN <<-1, -1>>
             ELSE << ToRights(acc.is_valid_dir, acc.result_dir),
                     ToRights(acc.is_valid_file, acc.result_file) >>

\* the exception class the except clause around dir() names (line 241)
RightsCatches == {"error_perm"}

\* The listings the server may send.  A line is a type character, nine
\* permission characters and what follows them.
PermStrings ==
    { <<"r", "w", "x", "-", "-", "-", "-", "-", "-">>,
      <<"-", "-", "-", "r", "-", "x", "r", "-", "x">>,
      <<"r", "w", "x", "r", "-", "x", "r", "-", "x">>,
      <<"r", "w", "-", "r", "-", "-", "r", "-", "-">>,
      <<"x", "w", "s", "w", "r", "X", "S", "x", "t">> }
TypeChars == {"d", "-", "l"}
LineTails == { <<>>, <<" ", "n">> }
ListingLines ==
    { <<k>> \o p \o t : k \in TypeChars, p \in PermStrings, t \in LineTails }
    \cup { <<>> }

InitRights ==
    /\ ScanIdle
    /\ ProbeIdle
    /\ RightsIdle
    /\ MainOff
    /\ faults = 0
    /\ raised = NoError
    /\ ftpLog = <<>>

\* a call of getMaxRights(), lines 234-240
GetMaxRights ==
    /\ rightspc = "idle"
    /\ rightspc' = "dir"
    /\ data' = <<>>
    /\ UNCHANGED <<rights, faults, raised, ftpLog, scanVars, probeVars, mainVars>>

\* line 240: dir() hands one more line to data.append
DirLine ==
    /\ rightspc = "dir"
    /\ Len(data) < MaxLines
    /\ \E line \in ListingLines : data' = Append(data, line)
    /\ UNCHANGED <<rightspc, rights, faults, raised, ftpLog, scanVars, probeVars, mainVars>>

\* lines 240 and 244-324: dir() returns, the lines are parsed
DirOk ==
    /\ rightspc = "dir"
    /\ rights' = ParseMaxRights(data)
    /\ rightspc' = "done"
    /\ raised' = NoError
    /\ ftpLog' = ProbeLogged("dir", "", "ok")
    /\ UNCHANGED <<data, faults, scanVars, probeVars, mainVars>>

\* lines 240-242: dir() raises; error_perm is answered with (-1, -1)
DirFail ==
    /\ rightspc = "dir"
    /\ \E exc \in ErrKinds :
          /\ rights' = IF exc \in RightsCatches THEN <<-1, -1>> ELSE NoReport
          /\ raised' = IF exc \in RightsCatches THEN NoError ELSE exc
          /\ ftpLog' = ProbeLogged("dir", "", exc)
    /\ rightspc' = "done"
    /\ UNCHANGED <<data, faults, scanVars, probeVars, mainVars>>

NextRights ==
    \/ GetMaxRights
    \/ DirLine
    \/ DirOk
    \/ DirFail

SpecRights == InitRights /\ [][NextRights]_vars

----------------------------------------------------------------------------
(* main(): the three operations, each tried again once after a fault *)

Ops == <<"probe", "rights", "scan">>

\* the names checkWriteAndDeleteAccess takes by default (lines 177-178)
DefaultDirName == "folder_to_delete_1"
DefaultFileName == "file_to_delete_1"

\* ftplib.all_errors, as far as the four error classes go (lines 370, 376)
MainCatches == ErrKinds

\* the listing lines of the server main() talks to
MainListingLines ==
    { <<k>> \o <<"r", "w", "x", "r", "-", "x", "r", "-", "x">> \o <<" ", "n">> :
          k \in {"d", "l"} }

\* has the call main() is waiting for ended?
OpEnded(op) ==
    CASE op = "probe"  -> probe.pc = "done"
      [] op = "rights" -> rightspc = "done"
      [] op = "scan"   -> scanpc = "done"
      [] OTHER         -> FALSE

\* a main() whose handler calls again after every fault
TriesAgain_Always(attempt) == TRUE

\* lines 368-378: only the except clause of the first call holds a second
\* call; the except clause of the second call holds none
TriesAgain(attempt) == attempt = 1

\* lines 386-387, 411-412, 429: on to the next operation, or the end
Advance(m) ==
    IF m.op = "probe"
    THEN [m EXCEPT !.pc = "call", !.op = "rights", !.attempt = 1, !.operation_ok = TRUE]
    ELSE IF m.op = "rights"
    THEN [m EXCEPT !.pc = "call", !.op = "scan", !.attempt = 1, !.operation_ok = TRUE]
    ELSE [m EXCEPT !.pc = "end"]

Event(ev, op) == [ev |-> ev, op |-> op, t |-> clock]

InitMain ==
    /\ ScanIdle
    /\ ProbeIdle
    /\ RightsIdle
    /\ main = [pc |-> "start", op |-> "none", attempt |-> 0, operation_ok |-> TRUE]
    /\ mainLog = <<>>
    /\ clock = 0
    /\ faults \in 0..MaxFaults
    /\ raised = NoError
    /\ ftpLog = <<>>

\* lines 342-367: connect and login succeed or not
MainLogin ==
    /\ main.pc = "start"
    /\ \E is_logged \in BOOLEAN :
          main' = IF is_logged
                  THEN [main EXCEPT !.pc = "call", !.op = "probe", !.attempt = 1]
                  ELSE [main EXCEPT !.pc = "end"]
    /\ UNCHANGED <<mainLog, clock, faults, raised, ftpLog, scanVars, probeVars, rightsVars>>

\* lines 369 and 375: ftp_test.checkWriteAndDeleteAccess()
MainCallProbe ==
    /\ main.pc = "call" /\ main.op = "probe"
    /\ probe' = ProbeStart(DefaultDirName, DefaultFileName)
    /\ report' = NoReport
    /\ runs' = runs + 1
    /\ raised' = NoError
    /\ ftpLog' = <<>>
    /\ main' = [main EXCEPT !.pc = "wait"]
    /\ mainLog' = Append(mainLog, Event("call", main.op))
    /\ UNCHANGED <<srvFs, clock, faults, scanVars, rightsVars>>

\* lines 389 and 395: ftp_test.getMaxRights()
MainCallRights ==
    /\ main.pc = "call" /\ main.op = "rights"
    /\ rightspc' = "dir"
    /\ data' = <<>>
    /\ rights' = NoReport
    /\ raised' = NoError
    /\ ftpLog' = <<>>
    /\ main' = [main EXCEPT !.pc = "wait"]
    /\ mainLog' = Append(mainLog, Event("call", main.op))
    /\ UNCHANGED <<clock, faults, scanVars, probeVars>>

\* line 240 under main(): dir() hands a line to data.append
MainDirLine ==
    /\ main.pc = "wait" /\ main.op = "rights"
    /\ rightspc = "dir"
    /\ Len(data) < MaxMainLines
    /\ \E line \in MainListingLines : data' = Append(data, line)
    /\ UNCHANGED <<rightspc, rights, faults, raised, ftpLog, scanVars, probeVars, mainVars>>

\* lines 414 and 421: ftp_test.getContent()
MainCallScan ==
    /\ main.pc = "call" /\ main.op = "scan"
    /\ Apply(PublicCall(DefaultMaxDepth, DefaultMaxFiles))
    /\ scanArgs' = [max_depth |-> DefaultMaxDepth, max_files |-> DefaultMaxFiles]
    /\ ftpLog' = <<>>
    /\ main' = [main EXCEPT !.pc = "wait"]
    /\ mainLog' = Append(mainLog, Event("call", main.op))
    /\ UNCHANGED <<srvTree, srvCwd, clock, faults, probeVars, rightsVars>>

\* lines 380-384, 400-409, 426-427: the call returned, its result is printed
MainPrintResult ==
    /\ main.pc = "wait" /\ OpEnded(main.op)
    /\ raised = NoError
    /\ main.operation_ok
    /\ main' = Advance(main)
    /\ mainLog' = mainLog \o <<Event("return", main.op), Event("print_result", main.op)>>
    /\ UNCHANGED <<clock, faults, raised, ftpLog, scanVars, probeVars, rightsVars>>

\* lines 370-373, 390-393, 415-418: the first call raised; "trying again..."
MainFirstFault ==
    /\ main.pc = "wait" /\ OpEnded(main.op)
    /\ raised \in MainCatches
    /\ TriesAgain(main.attempt)
    /\ main' = [main EXCEPT !.pc = "sleep"]
    /\ mainLog' = mainLog \o <<Event("fault", main.op), Event("print_retry", main.op)>>
    /\ UNCHANGED <<clock, faults, raised, ftpLog, scanVars, probeVars, rightsVars>>

\* lines 373, 393, 418: time.sleep(1) is over
MainSleep ==
    /\ main.pc = "sleep"
    /\ clock' = clock + 1
    /\ main' = [main EXCEPT !.pc = "call", !.attempt = main.attempt + 1]
    /\ mainLog' = Append(mainLog, [ev |-> "sleep", op |-> main.op, t |-> clock + 1])
    /\ UNCHANGED <<faults, raised, ftpLog, scanVars, probeVars, rightsVars>>

\* lines 376-380, 396-400, 422-426: the second call raised; operation_ok is
\* False, "Impossible to get ..." is printed and no result is
MainSecondFault ==
    /\ main.pc = "wait" /\ OpEnded(main.op)
    /\ raised \in MainCatches
    /\ ~TriesAgain(main.attempt)
    /\ main' = Advance([main EXCEPT !.operation_ok = FALSE])
    /\ mainLog' = mainLog \o <<Event("fault", main.op), Event("print_failed", main.op)>>
    /\ UNCHANGED <<clock, faults, raised, ftpLog, scanVars, probeVars, rightsVars>>

NextMain ==
    \/ MainLogin
    \/ MainCallProbe
    \/ Mkd
    \/ Rmd
    \/ Storbinary
    \/ Delete
    \/ MainCallRights
    \/ MainDirLine
    \/ DirOk
    \/ DirFail
    \/ MainCallScan
    \/ NlstOk
    \/ NlstFail
    \/ CwdOk
    \/ CwdFail
    \/ SkipAsFile
    \/ ReturnLevel
    \/ CdupOk
    \/ CdupFail
    \/ MainPrintResult
    \/ MainFirstFault
    \/ MainSleep
    \/ MainSecondFault

SpecMain == InitMain /\ [][NextMain]_vars

----------------------------------------------------------------------------
(* Reading a result and the command log *)

\* every entry recorded below `node`: <<path from the root, variant>>
RECURSIVE Flatten(_, _)
Flatten(node, prefix) ==
    IF node.t # "Subtree" THEN {}
    ELSE UNION { {<<Append(prefix, n), node.c[n].t>>}
                 \cup Flatten(node.c[n], Append(prefix, n)) : n \in DOMAIN node.c }

Recorded == Flatten(content, <<>>)
Visited == {e \in Recorded : e[2] \in {"Leaf", "Subtree"}}

\* the number of entries the server holds, '.' and '..' aside
NumEntries(tree) ==
    Cardinality(UNION { {<<p, i>> : i \in 1..Len(Listed(tree[p]))} : p \in DOMAIN tree })

LogIdx == DOMAIN ftpLog
NoFaultInjected == faults = MaxFaults
HasInnerDot(name) == Find(name, ".") >= 1

----------------------------------------------------------------------------
(* Claims about the scan *)

\* C1: whenever the scanner stands at the head of the entry loop right after
\* an entry whose cwd(entry) succeeded, the server's working directory is the
\* one it was in before that cwd, whatever the commands of the descent did.
C1_TraversalSymmetry ==
    scanpc = "running" =>
        LET f == Top(stack)
        IN  (f.pc = "loop" /\ f.entered) => srvCwd = f.before

\* C2: with max_files = m >= 0 and a server that fails no command, the scan
\* records exactly min(m, number of entries) entries as Leaf or Subtree.
C2_GlobalSeenCount ==
    (scanpc = "done" /\ raised = NoError /\ NoFaultInjected /\ scanArgs.max_files >= 0)
        => Cardinality(Visited) = Min({scanArgs.max_files, NumEntries(srvTree)})

\* C3: with max_depth = d >= 0 no directory deeper than d is listed, and no
\* entry deeper than d is reported as a Subtree.
C3_DepthLimit ==
    scanArgs.max_depth >= 0 =>
        /\ \A i \in LogIdx :
              ftpLog[i].cmd = "nlst" => ftpLog[i].at <= scanArgs.max_depth
        /\ \A e \in Recorded :
              Len(e[1]) > scanArgs.max_depth => e[2] # "Subtree"

\* C4: getContent scans with optimized = True; no cwd is ever sent for an
\* entry whose name has a dot at position >= 1, and such an entry is a Leaf.
C4_DottedNameNoCwd ==
    /\ \A i \in LogIdx :
          ftpLog[i].cmd = "cwd" => ~HasInnerDot(LastSegment(ftpLog[i].arg))
    /\ \A e \in Recorded :
          HasInnerDot(e[1][Len(e[1])]) => e[2] = "Leaf"

AtEntry == scanpc = "running" /\ Top(stack).pc = "loop" /\ Top(stack).todo # <<>>
NextEntry == Head(Top(stack).todo)

\* C12: every entry whose name has no dot, or a dot in first place, gets a
\* cwd when its turn comes; when that cwd succeeds the recursive call for
\* the entry is made (a new activation, or '+' from the max_files limit).
C12_UndottedNameGetsCwd ==
    [][ (AtEntry /\ ~HasInnerDot(LastSegment(NextEntry))) =>
           /\ Len(ftpLog') = Len(ftpLog) + 1
           /\ ftpLog'[Len(ftpLog')].cmd = "cwd"
           /\ ftpLog'[Len(ftpLog')].arg = NextEntry
           /\ ftpLog'[Len(ftpLog')].res = "ok" =>
                 \/ /\ Len(stack') = Len(stack) + 1
                    /\ Top(stack').depth = DefaultDepth /\ Top(stack').pc = "nlst"
                 \/ /\ Len(stack') = Len(stack)
                    /\ Top(stack').pc = "cdup"
                    /\ Top(stack').level[LastSegment(NextEntry)] = Truncated
      ]_vars

\* C12 witness: the hidden directory .h was entered and is about to be listed
C12_Witness ==
    /\ scanpc = "running" /\ Len(stack) = 2 /\ Top(stack).pc = "nlst"
    /\ ftpLog # <<>>
    /\ ftpLog[Len(ftpLog)] = [cmd |-> "cwd", arg |-> nH, res |-> "ok", at |-> 0]

\* C13: with max_depth = d >= 0, no command is sent for an entry that lies
\* deeper than d: no cwd into a directory of depth > d, no cwd('..') out of
\* one, and no nlst inside one.
C13_NoCommandBeyondDepth ==
    scanArgs.max_depth >= 0 =>
        \A i \in LogIdx :
            /\ (ftpLog[i].cmd = "cwd" /\ ftpLog[i].res = "ok")
                  => ftpLog[i].at + 1 <= scanArgs.max_depth
            /\ (ftpLog[i].cmd = "cwd" /\ ftpLog[i].arg = nDotDot)
                  => ftpLog[i].at + 1 <= scanArgs.max_depth
            /\ ftpLog[i].cmd = "nlst" => ftpLog[i].at <= scanArgs.max_depth

----------------------------------------------------------------------------
(* Claims about the probe *)

\* the commands of the current call of checkWriteAndDeleteAccess
ThisRun == {i \in LogIdx : ftpLog[i].at = runs}
Sent(cmd) == \E i \in ThisRun : ftpLog[i].cmd = cmd
Succeeded(cmd) == \E i \in ThisRun : ftpLog[i].cmd = cmd /\ ftpLog[i].res = "ok"
Denied(cmd) == \E i \in ThisRun : ftpLog[i].cmd = cmd /\ ftpLog[i].res = "error_perm"
ProbeReturned == probe.pc = "done" /\ raised = NoError

\* C5: when every command of the probe succeeded or was denied, the probe
\* sent mkd and stor and returned (mkd ok, mkd ok and rmd ok, stor ok,
\* stor ok and dele ok); four successes give (true, true, true, true).
C5_ProbeFlags ==
    ProbeReturned =>
        /\ \A i \in ThisRun : ftpLog[i].res \in {"ok", "error_perm"}
        /\ Sent("mkd") /\ Sent("stor")
        /\ report = << Succeeded("mkd"), Succeeded("mkd") /\ Succeeded("rmd"),
                       Succeeded("stor"), Succeeded("stor") /\ Succeeded("dele") >>

\* C5 witness: the directory could not be created, the file half succeeded
C5_Witness ==
    /\ ProbeReturned
    /\ Denied("mkd") /\ Succeeded("stor") /\ Succeeded("dele")
    /\ report = <<FALSE, FALSE, TRUE, TRUE>>

\* C6: rmd is sent only after an mkd that succeeded in the same call, dele
\* only after a stor that succeeded in the same call; a true delete flag
\* comes with a true create flag; when mkd and stor are both denied, no
\* rmd or dele is sent and the probe returns (false, false, false, false).
C6_DeleteOnlyAfterCreate ==
    /\ \A i \in LogIdx :
          ftpLog[i].cmd = "rmd" =>
              \E j \in 1..(i - 1) : /\ ftpLog[j].at = ftpLog[i].at
                                    /\ ftpLog[j].cmd = "mkd" /\ ftpLog[j].res = "ok"
    /\ \A i \in LogIdx :
          ftpLog[i].cmd = "dele" =>
              \E j \in 1..(i - 1) : /\ ftpLog[j].at = ftpLog[i].at
                                    /\ ftpLog[j].cmd = "stor" /\ ftpLog[j].res = "ok"
    /\ ProbeReturned => (report[2] => report[1]) /\ (report[4] => report[3])
    /\ (ProbeReturned /\ Denied("mkd") /\ Denied("stor")) =>
          /\ ~Sent("rmd") /\ ~Sent("dele")
          /\ report = <<FALSE, FALSE, FALSE, FALSE>>

\* C6 witness: a probe that returned after both creations were denied
C6_Witness ==
    ProbeReturned /\ Denied("mkd") /\ Denied("stor")

\* C8: once a command of the probe fails with error_temp, error_reply or
\* error_proto, the call is over, that exception reached the caller and
\* nothing was returned.
C8_FaultsPropagate ==
    \A i \in ThisRun :
        ftpLog[i].res \in {"error_temp", "error_reply", "error_proto"} =>
            /\ probe.pc = "done"
            /\ raised = ftpLog[i].res
            /\ report = NoReport
            /\ i = Len(ftpLog)

\* C8 witness: rmd failed with error_temp after mkd had succeeded
C8_Witness ==
    /\ Succeeded("mkd")
    /\ \E i \in ThisRun : ftpLog[i].cmd = "rmd" /\ ftpLog[i].res = "error_temp"
    /\ raised = "error_temp"

----------------------------------------------------------------------------
(* Claims about the rights *)

DirAnswered == rightspc = "done" /\ ftpLog[Len(ftpLog)].res = "ok"
DirLines == {i \in 1..Len(data) : Len(data[i]) > 10 /\ data[i][1] = "d"}
FileLines == {i \in 1..Len(data) : Len(data[i]) > 10 /\ data[i][1] = "-"}

\* is one of `chars` at (0-based) position pos of some line of L?
Seen(L, pos, chars) == \E i \in L : data[i][pos + 1] \in chars
Bit(b) == IF b THEN 1 ELSE 0

\* the digit of triad k (0 owner, 1 group, 2 other) over the lines L
Digit(L, k) ==
    4 * Bit(Seen(L, 3 * k + 1, {"r"})) + 2 * Bit(Seen(L, 3 * k + 2, {"w"}))
    + Bit(Seen(L, 3 * k + 3, {"x", "X", "s"}))
UnionRights(L) == Digit(L, 0) * 100 + Digit(L, 1) * 10 + Digit(L, 2)
OctalDigits(n) == (n \div 100) \in 0..7 /\ ((n \div 10) % 10) \in 0..7 /\ (n % 10) \in 0..7

LongLine(k, p) == <<k>> \o p \o <<" ", "n">>
Perm_rwx______ == <<"r", "w", "x", "-", "-", "-", "-", "-", "-">>
Perm____r_xr_x == <<"-", "-", "-", "r", "-", "x", "r", "-", "x">>
Perm_rwxr_xr_x == <<"r", "w", "x", "r", "-", "x", "r", "-", "x">>
Perm_rw_r__r__ == <<"r", "w", "-", "r", "-", "-", "r", "-", "-">>

\* the general rule of C9: each result is the three digits 4r + 2w + x of
\* the union of the bits of all lines of its kind, each digit in 0..7
UnionRule ==
    /\ DirLines # {} =>
          rights[1] = UnionRights(DirLines) /\ OctalDigits(rights[1])
    /\ FileLines # {} =>
          rights[2] = UnionRights(FileLines) /\ OctalDigits(rights[2])
    /\ data = <<LongLine("d", Perm_rwxr_xr_x), LongLine("-", Perm_rw_r__r__)>>
          => rights = <<755, 644>>

\* C9 as stated: the rule, and "drwx------" with "d---r-xr-x" gives 775.
C9_AsStated ==
    DirAnswered =>
        /\ UnionRule
        /\ data = <<LongLine("d", Perm_rwx______), LongLine("d", Perm____r_xr_x)>>
              => rights[1] = 775

\* C9 (amended): when the listing holds a directory line, the directory
\* result is the three digits 4r + 2w + x of the union of the bits of all
\* directory lines, each digit in 0..7, and likewise for file lines; lines
\* that begin "drwx------" and "d---r-xr-x" give 755, lines that begin
\* "drwxr-xr-x" and "-rw-r--r--" give (755, 644).
C9_UnionOfRights ==
    DirAnswered =>
        /\ UnionRule
        /\ data = <<LongLine("d", Perm_rwx______), LongLine("d", Perm____r_xr_x)>>
              => rights[1] = 755

\* C9 witness: the two directory lines of the example, parsed
C9_Witness ==
    /\ DirAnswered
    /\ data = <<LongLine("d", Perm_rwx______), LongLine("d", Perm____r_xr_x)>>
    /\ rights[1] = 755

\* C10: the directory result is -1 exactly when no line longer than 10
\* characters starts with 'd', the file result exactly when none starts with
\* '-'; lines of another type change nothing; an empty or denied listing and
\* a listing of links give (-1, -1).
C10_MinusOne ==
    /\ DirAnswered =>
          /\ rights[1] = -1 <=> DirLines = {}
          /\ rights[2] = -1 <=> FileLines = {}
          /\ rights = ParseMaxRights(SelectSeq(data,
                 LAMBDA line : line # <<>> /\ line[1] \in {"d", "-"}))
          /\ (\A i \in 1..Len(data) : data[i] # <<>> /\ data[i][1] = "l")
                 => rights = <<-1, -1>>
    /\ (rightspc = "done" /\ ftpLog[Len(ftpLog)].res = "error_perm")
          => rights = <<-1, -1>> /\ raised = NoError

\* C10 witness: a listing of one long link line, answered with (-1, -1)
C10_Witness ==
    /\ DirAnswered
    /\ Len(data) = 1 /\ Len(data[1]) > 10 /\ data[1][1] = "l"
    /\ rights = <<-1, -1>>

----------------------------------------------------------------------------
(* Claims about main() *)

\* what main() did for one operation, in order
EventsOf(op) ==
    LET sel == SelectSeq(mainLog, LAMBDA e : e.op = op)
    IN  [i \in 1..Len(sel) |-> sel[i].ev]
CallTimes(op) ==
    LET sel == SelectSeq(mainLog, LAMBDA e : e.op = op /\ e.ev = "call")
    IN  [i \in 1..Len(sel) |-> sel[i].t]
IsPrefix(s, t) == Len(s) <= Len(t) /\ s = SubSeq(t, 1, Len(s))

\* the three ways an operation can go
CalledOnce == <<"call", "return", "print_result">>
CalledTwice ==
    <<"call", "fault", "print_retry", "sleep", "call", "return", "print_result">>
FailedTwice ==
    <<"call", "fault", "print_retry", "sleep", "call", "fault", "print_failed">>
Courses == {CalledOnce, CalledTwice, FailedTwice}

\* C11: for each of probe, maxRights and scan, main() calls at most twice;
\* the second call comes exactly when the first raised, and at least one
\* second of sleep after it; when the second call raises too, the failure
\* is printed, no result is, no third call is made, and main() goes on to
\* the next operation, down to the end.
C11_RetryOnce ==
    /\ \A k \in 1..3 :
          /\ \E c \in Courses : IsPrefix(EventsOf(Ops[k]), c)
          /\ Len(CallTimes(Ops[k])) = 2 =>
                CallTimes(Ops[k])[2] >= CallTimes(Ops[k])[1] + 1
          /\ (k > 1 /\ EventsOf(Ops[k]) # <<>>) => EventsOf(Ops[k - 1]) \in Courses
    /\ (main.pc = "end" /\ mainLog # <<>>) => EventsOf("scan") \in Courses

\* C11 witness: the probe failed twice and main() went on to getMaxRights
C11_Witness ==
    /\ EventsOf("probe") = FailedTwice
    /\ EventsOf("rights") # <<>>

====
